---- MODULE Spec2Model ----
(***************************************************************************)
(* Model of VectorPool (src/src/utils/Vector/VectorPool.ts): a growable    *)
(* array of Vector2D objects with a cursor `_count` of active vectors.     *)
(*                                                                         *)
(* Vector2D objects live in `heap`, indexed by object identity (allocation *)
(* order, from 0).  `_pool` maps array positions (from 0) to object        *)
(* identities, so that two positions holding the same object, or an object *)
(* that is no longer in the array, can be told apart.  Index arguments are *)
(* integers.                                                               *)
(***************************************************************************)
EXTENDS Integers, FiniteSets, Sequences, TLC

VARIABLES _pool, _count, heap, last, seen

vars == <<_pool, _count, heap, last, seen>>

\* ---- bounds of the model ------------------------------------------------
MaxInit == 2      \* initialPoolSize ranges over 0..MaxInit
MaxSize == 3      \* new-family calls are not taken past this array length
MaxComp == 1      \* component arguments range over 0..MaxComp

Comp == 0..MaxComp
Angles == {0, 1}  \* angle arguments in quarter turns: 0 and PI/2

\* the JavaScript value `undefined`: an unset _pool_index, an absent argument,
\* the result of a method that returns nothing
Undefined == -1

\* ---- Vector2D (./index of utils/Vector) --------------------------------
Vector2D(x, y, i) == [x |-> x, y |-> y, _pool_index |-> i]

set(v, x, y) == [v EXCEPT !.x = x, !.y = y]

copy(v, source) == [v EXCEPT !.x = source.x, !.y = source.y]

Cos(a) == IF a = 0 THEN 1 ELSE 0

Sin(a) == IF a = 0 THEN 0 ELSE 1

fromAngle(v, a) == [v EXCEPT !.x = Cos(a), !.y = Sin(a)]

fromObservablePoint(v, px, py) == [v EXCEPT !.x = px, !.y = py]

\* ---- VectorPool ---------------------------------------------------------
\* A pool state is a record [pool, count, heap]; every method maps a pool
\* state to the pool state after the call, extended with the returned object
\* (ret) and the exception thrown (err).

size(s) == Cardinality(DOMAIN s.pool)

\* new Vector2D(...) allocates the next object identity
alloc(h, v) == [o \in 0..Cardinality(DOMAIN h) |-> IF o \in DOMAIN h THEN h[o] ELSE v]

\* Array.prototype.push
push(p, o) == [i \in 0..Cardinality(DOMAIN p) |-> IF i \in DOMAIN p THEN p[i] ELSE o]

constructorOneMore(initialPoolSize) ==
    [pool  |-> [i \in 0..initialPoolSize |-> i],
     heap  |-> [i \in 0..initialPoolSize |-> Vector2D(0, 0, i)],
     count |-> 0]

constructor(initialPoolSize) ==
    [pool  |-> [i \in 0..(initialPoolSize - 1) |-> i],
     heap  |-> [i \in 0..(initialPoolSize - 1) |-> Vector2D(0, 0, i)],
     count |-> 0]

NeedsGrowAhead(sz, c) == sz + 1 < c

NeedsGrowEarly(sz, c) == sz <= c

\* line 59: this.size < this.count
NeedsGrow(sz, c) == sz < c

newWithoutSet(s, x, y) ==
    LET c  == s.count + 1
        o  == Cardinality(DOMAIN s.heap)
        g  == NeedsGrow(size(s), c)
        p  == IF g THEN push(s.pool, o) ELSE s.pool
        h  == IF g THEN alloc(s.heap, Vector2D(x, y, c - 1)) ELSE s.heap
    IN  IF (c - 1) \in DOMAIN p
        THEN [pool |-> p, count |-> c, heap |-> h, ret |-> p[c - 1], err |-> "none"]
        ELSE [pool |-> p, count |-> c, heap |-> h, ret |-> Undefined, err |-> "TypeError"]

new(s, x, y) ==
    LET c  == s.count + 1
        o  == Cardinality(DOMAIN s.heap)
        g  == NeedsGrow(size(s), c)
        p  == IF g THEN push(s.pool, o) ELSE s.pool
        h  == IF g THEN alloc(s.heap, Vector2D(x, y, c - 1)) ELSE s.heap
    IN  IF (c - 1) \in DOMAIN p
        THEN [pool |-> p, count |-> c,
              heap |-> [h EXCEPT ![p[c - 1]] = set(h[p[c - 1]], x, y)],
              ret |-> p[c - 1], err |-> "none"]
        ELSE \* this._pool[this.count - 1] is undefined: .set throws
             [pool |-> p, count |-> c, heap |-> h, ret |-> Undefined, err |-> "TypeError"]

\* clone(vector): vector is the identity of the source object; it is read
\* after new() has run
clone(s, vector) ==
    LET r == new(s, 0, 0)
    IN  IF r.err # "none" THEN r
        ELSE [r EXCEPT !.heap[r.ret] = copy(r.heap[r.ret], r.heap[vector])]

poolFromAngle(s, a) ==
    LET r == new(s, 0, 0)
    IN  IF r.err # "none" THEN r
        ELSE [r EXCEPT !.heap[r.ret] = fromAngle(r.heap[r.ret], a)]

poolFromObservablePoint(s, px, py) ==
    LET r == new(s, 0, 0)
    IN  IF r.err # "none" THEN r
        ELSE [r EXCEPT !.heap[r.ret] = fromObservablePoint(r.heap[r.ret], px, py)]

clearTruncating(s) ==
    [pool |-> [i \in {} |-> 0], count |-> 0, heap |-> s.heap, ret |-> Undefined, err |-> "none"]

clear(s) ==
    [pool |-> s.pool, count |-> 0, heap |-> s.heap, ret |-> Undefined, err |-> "none"]

OutOfBoundOffByOne(index, c) == index < 0 \/ index > c

\* line 101
OutOfBound(index, c) == index < 0 \/ index >= c

MoveLastKeepsIndex(s, index) ==
    LET h1 == [s.heap EXCEPT ![s.pool[index]]._pool_index = Undefined]
        p1 == [s.pool EXCEPT ![index] = s.pool[s.count - 1]]
    IN  [s EXCEPT !.pool = p1, !.heap = h1]

\* lines 108-110
MoveLast(s, index) ==
    LET h1 == [s.heap EXCEPT ![s.pool[index]]._pool_index = Undefined]
        p1 == [s.pool EXCEPT ![index] = s.pool[s.count - 1]]
        h2 == [h1 EXCEPT ![p1[index]]._pool_index = index]
    IN  [s EXCEPT !.pool = p1, !.heap = h2]

clear_indexDecrementInsideIf(s, index) ==
    LET thrown(e) == [pool |-> s.pool, count |-> s.count, heap |-> s.heap,
                      ret |-> Undefined, err |-> e]
    IN  IF OutOfBound(index, s.count) THEN thrown("Index out of bound")
        ELSE IF s.count = 0 THEN thrown("Pool is already cleared")
        ELSE IF index + 1 < s.count
             THEN LET m == MoveLast(s, index)
                  IN  [pool |-> m.pool, count |-> m.count - 1, heap |-> m.heap,
                       ret |-> Undefined, err |-> "none"]
             ELSE [pool |-> s.pool, count |-> s.count, heap |-> s.heap,
                   ret |-> Undefined, err |-> "none"]

clear_indexDecrementFirst(s, index) ==
    LET c == s.count - 1
        thrown(e) == [pool |-> s.pool, count |-> c, heap |-> s.heap,
                      ret |-> Undefined, err |-> e]
    IN  IF OutOfBound(index, c + 1) THEN thrown("Index out of bound")
        ELSE IF c + 1 = 0 THEN thrown("Pool is already cleared")
        ELSE LET m == IF index + 1 < s.count THEN MoveLast(s, index) ELSE s
             IN  [pool |-> m.pool, count |-> c, heap |-> m.heap,
                  ret |-> Undefined, err |-> "none"]

clear_index(s, index) ==
    LET thrown(e) == [pool |-> s.pool, count |-> s.count, heap |-> s.heap,
                      ret |-> Undefined, err |-> e]
    IN  IF OutOfBound(index, s.count) THEN thrown("Index out of bound")
        ELSE IF s.count = 0 THEN thrown("Pool is already cleared")
        ELSE LET m == IF index + 1 < s.count THEN MoveLast(s, index) ELSE s
             IN  [pool |-> m.pool, count |-> m.count - 1, heap |-> m.heap,
                  ret |-> Undefined, err |-> "none"]

\* ---- the state machine --------------------------------------------------
This == [pool |-> _pool, count |-> _count, heap |-> heap]

Call(op, index, x, y) == [op |-> op, index |-> index, x |-> x, y |-> y]

\* `last` records the last call: its arguments, the count and size read before
\* it, the object it returned and the exception it threw
Observed(r, call) ==
    [op |-> call.op, index |-> call.index, x |-> call.x, y |-> call.y,
     count0 |-> _count, size0 |-> size(This),
     ret |-> r.ret, err |-> r.err]

\* `seen` keeps the constructor's argument and the highest count reached
Max(a, b) == IF a >= b THEN a ELSE b

Seen(r) == [seen EXCEPT !.maxCount = Max(seen.maxCount, r.count)]

Init ==
    \E n \in 0..MaxInit :
        LET s == constructor(n)
        IN  /\ _pool = s.pool
            /\ _count = s.count
            /\ heap = s.heap
            /\ last = [op |-> "constructor", index |-> Undefined, x |-> Undefined, y |-> Undefined,
                       count0 |-> Undefined, size0 |-> Undefined,
                       ret |-> Undefined, err |-> "none"]
            /\ seen = [initialPoolSize |-> n, maxCount |-> s.count]

\* the model stops allocating once the array has MaxSize elements
CanAllocate == _count < size(This) \/ size(This) < MaxSize

Live == {_pool[i] : i \in 0..(_count - 1)}

New ==
    /\ CanAllocate
    /\ \E x \in Comp, y \in Comp :
          LET r == new(This, x, y)
          IN  /\ _pool' = r.pool
              /\ _count' = r.count
              /\ heap' = r.heap
              /\ last' = Observed(r, Call("new", Undefined, x, y))
              /\ seen' = Seen(r)

\* the argument is a live vector; index records its identity and x, y its
\* components when clone is called
Clone ==
    /\ CanAllocate
    /\ \E v \in Live :
          LET r == clone(This, v)
          IN  /\ _pool' = r.pool
              /\ _count' = r.count
              /\ heap' = r.heap
              /\ last' = Observed(r, Call("clone", v, heap[v].x, heap[v].y))
              /\ seen' = Seen(r)

FromAngle ==
    /\ CanAllocate
    /\ \E a \in Angles :
          LET r == poolFromAngle(This, a)
          IN  /\ _pool' = r.pool
              /\ _count' = r.count
              /\ heap' = r.heap
              /\ last' = Observed(r, Call("fromAngle", a, Cos(a), Sin(a)))
              /\ seen' = Seen(r)

FromObservablePoint ==
    /\ CanAllocate
    /\ \E px \in Comp, py \in Comp :
          LET r == poolFromObservablePoint(This, px, py)
          IN  /\ _pool' = r.pool
              /\ _count' = r.count
              /\ heap' = r.heap
              /\ last' = Observed(r, Call("fromObservablePoint", Undefined, px, py))
              /\ seen' = Seen(r)

Clear ==
    LET r == clear(This)
    IN  /\ _pool' = r.pool
        /\ _count' = r.count
        /\ heap' = r.heap
        /\ last' = Observed(r, Call("clear", Undefined, Undefined, Undefined))
        /\ seen' = Seen(r)

ClearIndex ==
    \E index \in (-1)..MaxSize :
        LET r == clear_index(This, index)
        IN  /\ _pool' = r.pool
            /\ _count' = r.count
            /\ heap' = r.heap
            /\ last' = Observed(r, Call("clear_index", index, Undefined, Undefined))
            /\ seen' = Seen(r)

Next == New \/ Clone \/ FromAngle \/ FromObservablePoint \/ Clear \/ ClearIndex

Spec == Init /\ [][Next]_vars

\* ---- properties ---------------------------------------------------------
NewFamily == {"new", "clone", "fromAngle", "fromObservablePoint"}

Positions == 0..(size(This) - 1)

LivePositions == 0..(_count - 1)

FreePositions == _count..(size(This) - 1)

\* C1: the live positions [0, _count) hold pairwise distinct objects, so the
\* vector returned by a new-family call is none of the vectors already live.
C1_ExclusiveLive ==
    \A i \in LivePositions : \A j \in LivePositions : i # j => _pool[i] # _pool[j]

\* C2: clone(v) of a live vector v returns a vector with v's components at
\* the time of the call, and that vector is not v itself.
C2_CloneEqualDistinct ==
    (last.op = "clone" /\ last.err = "none") =>
        /\ heap[last.ret].x = last.x
        /\ heap[last.ret].y = last.y
        /\ last.ret # last.index

\* C3: every live slot's _pool_index equals its position in the array; in
\* particular the vector returned by new has _pool_index equal to the count
\* before the call.
C3_LiveIndexIsPosition ==
    \A i \in LivePositions : heap[_pool[i]]._pool_index = i

\* C4: every free slot (position >= _count) has _pool_index unset.
C4_FreeIndexUnset ==
    \A i \in FreePositions : heap[_pool[i]]._pool_index = Undefined

\* C5: clear_index called with _count = 0 throws 'Pool is already cleared',
\* whatever the index.
C5_EmptyPoolError ==
    (last.op = "clear_index" /\ last.count0 = 0) => last.err = "Pool is already cleared"

\* C6: with _count > 0, clear_index(index) throws 'Index out of bound' when
\* index < 0 or index >= _count, and throws nothing when 0 <= index < _count.
C6_OutOfRangeError ==
    (last.op = "clear_index" /\ last.count0 > 0) =>
        IF last.index < 0 \/ last.index >= last.count0
        THEN last.err = "Index out of bound"
        ELSE last.err = "none"

C6_Witness ==
    /\ last.op = "clear_index"
    /\ last.count0 > 1
    /\ last.index = last.count0
    /\ last.err = "Index out of bound"

\* C7: clear_index(index) with index + 1 < _count puts the object of the last
\* active position at position index with its components, sets its
\* _pool_index to index and decrements _count by one.
C7_SwapRemove ==
    [][(last'.op = "clear_index" /\ last'.index >= 0 /\ last'.index + 1 < _count) =>
          LET moved == _pool[_count - 1]
          IN  /\ last'.err = "none"
              /\ _pool'[last'.index] = moved
              /\ heap'[moved].x = heap[moved].x
              /\ heap'[moved].y = heap[moved].y
              /\ heap'[moved]._pool_index = last'.index
              /\ _count' = _count - 1]_vars

\* three live vectors, the first released: the third one is now at position 0
C7_Witness ==
    /\ last.op = "clear_index"
    /\ last.err = "none"
    /\ last.index = 0
    /\ last.count0 = 3
    /\ _count = 2
    /\ _pool[0] = _pool[2]
    /\ heap[_pool[0]]._pool_index = 0
    /\ heap[_pool[0]].x # heap[_pool[1]].x

\* C8: 0 <= _count <= size in every reachable state.
C8_CountWithinSize == 0 <= _count /\ _count <= size(This)

\* a failed clear_index on a full pool
C8_Witness ==
    /\ last.op = "clear_index"
    /\ last.err # "none"
    /\ _count = size(This)
    /\ _count > 0

\* C9: a new-family call increments _count by one; the size is unchanged when
\* _count < size before the call and grows by exactly one when _count = size.
C9_GrowByOne ==
    last.op \in NewFamily =>
        /\ _count = last.count0 + 1
        /\ size(This) = (IF last.count0 < last.size0 THEN last.size0 ELSE last.size0 + 1)

\* a call that found the pool full, after one that did not
C9_Witness ==
    /\ last.op \in NewFamily
    /\ last.count0 = last.size0
    /\ last.size0 > 0
    /\ size(This) = last.size0 + 1
    /\ _count = size(This)

\* C10: clear() sets _count to 0 and leaves the array, its objects and their
\* order, and every object's components unchanged.
C10_ClearFrame ==
    [][last'.op = "clear" =>
          /\ _count' = 0
          /\ _pool' = _pool
          /\ DOMAIN heap' = DOMAIN heap
          /\ \A o \in DOMAIN heap : heap'[o].x = heap[o].x /\ heap'[o].y = heap[o].y]_vars

\* clear() called with live vectors that hold nonzero components
C10_Witness ==
    /\ last.op = "clear"
    /\ last.count0 > 1
    /\ _count = 0
    /\ size(This) = last.size0
    /\ \E i \in Positions : heap[_pool[i]].x # 0

\* C11: new(x, y) returns a vector whose components are exactly (x, y),
\* whether the slot is reused or appended.
C11_NewComponents ==
    (last.op = "new" /\ last.err = "none") =>
        /\ heap[last.ret].x = last.x
        /\ heap[last.ret].y = last.y

\* a reused slot, given components other than the ones it was built with
C11_Witness ==
    /\ last.op = "new"
    /\ last.count0 < last.size0
    /\ last.x = 1
    /\ last.y = 0
    /\ heap[last.ret].x = 1

\* C12: the length of the array never decreases, whatever the call.
C12_SizeMonotone == [][size(This)' >= size(This)]_vars

\* a release that succeeded on an array that has grown and has free slots
C12_Witness ==
    /\ last.op = "clear_index"
    /\ last.err = "none"
    /\ size(This) = last.size0
    /\ size(This) > _count
    /\ Cardinality(DOMAIN heap) > 2

\* C13: while _count < size, a new call returns the object already stored at
\* position _count and constructs nothing: the array and the set of objects
\* are unchanged.
C13_Reuse ==
    [][(last'.op = "new" /\ _count < size(This)) =>
          /\ last'.ret = _pool[_count]
          /\ _pool' = _pool
          /\ DOMAIN heap' = DOMAIN heap
          /\ heap'[last'.ret].x = last'.x
          /\ heap'[last'.ret].y = last'.y]_vars

\* the first new after the pool of three was emptied
C13_Witness ==
    /\ last.op = "new"
    /\ last.count0 = 0
    /\ last.size0 = 3
    /\ size(This) = 3
    /\ _count = 1
    /\ last.ret = _pool[0]

\* C14: a new-family call throws nothing and returns the object at position
\* _count - 1.
C14_NewNeverFails ==
    last.op \in NewFamily =>
        /\ last.err = "none"
        /\ last.ret \in DOMAIN heap
        /\ (_count - 1) \in Positions
        /\ last.ret = _pool[_count - 1]

\* a call on a pool that had no slot at all
C14_Witness ==
    /\ last.op \in NewFamily
    /\ last.size0 = 0
    /\ last.err = "none"
    /\ last.ret = 0

\* C15: every object ever constructed is in the array at exactly one
\* position (so a release of a non-last index has to be a swap, which keeps
\* the released object in the array).
C15_SlotConservation ==
    \A o \in DOMAIN heap : Cardinality({i \in Positions : _pool[i] = o}) = 1

\* C16: clear_index(index) with index = _count - 1 only decrements _count:
\* the array, the objects and their components are unchanged.
C16_ReleaseLast ==
    [][(last'.op = "clear_index" /\ _count > 0 /\ last'.index = _count - 1) =>
          /\ last'.err = "none"
          /\ _count' = _count - 1
          /\ _pool' = _pool
          /\ DOMAIN heap' = DOMAIN heap
          /\ \A o \in DOMAIN heap : heap'[o].x = heap[o].x /\ heap'[o].y = heap[o].y]_vars

\* the last of two live vectors released
C16_Witness ==
    /\ last.op = "clear_index"
    /\ last.err = "none"
    /\ last.count0 = 2
    /\ last.index = 1
    /\ _count = 1
    /\ _pool[0] # _pool[1]
    /\ heap[_pool[1]].x = 1

\* C18: a clear_index call that throws leaves _count, the array and every
\* object (components and _pool_index) as they were.
C18_FailedReleaseFrame ==
    [][(last'.op = "clear_index" /\ last'.err # "none") =>
          /\ _count' = _count
          /\ _pool' = _pool
          /\ heap' = heap]_vars

\* a negative index on a pool with live and free slots
C18_Witness ==
    /\ last.op = "clear_index"
    /\ last.err = "Index out of bound"
    /\ last.index < 0
    /\ _count > 0
    /\ _count < size(This)

\* C19: a clear_index call that succeeds leaves the length of the array
\* unchanged, and every live position other than index and _count - 1 keeps
\* its object, with the same components and the same _pool_index.
C19_ReleaseFrame ==
    [][(last'.op = "clear_index" /\ last'.err = "none") =>
          /\ size(This)' = size(This)
          /\ \A i \in LivePositions \ {last'.index, _count - 1} :
                /\ _pool'[i] = _pool[i]
                /\ heap'[_pool'[i]] = heap[_pool[i]]]_vars

\* C17: the length of the array is the maximum of initialPoolSize and the
\* highest _count reached; right after construction it is initialPoolSize
\* with _count = 0, and as long as _count never exceeded initialPoolSize no
\* object was constructed beyond the initial ones.
C17_SizeIsPeak ==
    /\ size(This) = Max(seen.initialPoolSize, seen.maxCount)
    /\ last.op = "constructor" => (size(This) = seen.initialPoolSize /\ _count = 0)
    /\ seen.maxCount <= seen.initialPoolSize =>
           Cardinality(DOMAIN heap) = seen.initialPoolSize

\* a frame that used the two initial slots and was cleared
C17_Witness ==
    /\ last.op = "clear"
    /\ last.count0 = 2
    /\ seen.initialPoolSize = 2
    /\ seen.maxCount = 2
    /\ size(This) = 2
    /\ _count = 0

====
